---- MODULE Spec2Model ----
(***************************************************************************)
(* Model of scada_modbus_demo: the polling client (client_poll.py: the     *)
(* AlarmState hysteresis machine and the poll/backoff loop of main) and    *)
(* the register simulator (server_sim.py: make_context and updater).       *)
(*                                                                         *)
(* Units.  Temperatures are held in tenths of a degree Celsius, the unit   *)
(* of register 5 (hi = 60.0 is 600, lo = 58.0 is 580): regs[5] / 10.0 is *)
(* compared with 60.0 and 58.0 in the code, and r / 10.0 > 60.0 holds      *)
(* exactly when r > 600.  Times are whole seconds.                         *)
(***************************************************************************)
EXTENDS Integers, Sequences, FiniteSets, TLC

VARIABLES
    alarm,      \* the AlarmState object (client_poll.py:40-48)
    calls,      \* number of AlarmState.update calls since construction
    ts,         \* timestamp handed to the latest direct update call
    arg,        \* temp_c handed to the latest direct update call
    pre,        \* the AlarmState as it was before the latest direct update call
    ret,        \* value returned by the latest direct update call
    raisedAt,   \* indices (0-based) of the calls that returned "raised"
    clearedAt,  \* indices (0-based) of the calls that returned "cleared"
    onRaise,    \* every call so far was the sample of RaiseStream at its index
    onReset,    \* every call so far was the sample of ResetStream at its index
    onClear     \* every call so far was the sample of ClearStream at its index

VARIABLES
    pc,         \* position of main in client_poll.py (see PollPcs)
    backoff,    \* main's backoff, seconds
    now,        \* the client's clock, time.time(), seconds
    start,      \* main's start: the clock at the top of the current cycle
    connected,  \* whether the Modbus client mb holds an open connection
    mqc,        \* the MQTT client: "running" after loop_start, "stopped" after disconnect
    rr,         \* the response of read_holding_registers not yet decoded
    vals,       \* the locals decoded from rr.registers in the current cycle
    exc,        \* the exception caught in the current cycle, None when none was raised
    evt,        \* main's evt: what alarm.update returned in the current cycle
    teleOut,    \* payloads published on TOPIC_TELE in the current cycle
    alarmOut,   \* payloads published on TOPIC_ALARM in the current cycle
    fails,      \* number of consecutive failed cycles since the last success
    cancelled,  \* whether the loop was interrupted from outside
    alarm0,     \* the AlarmState as it was at the top of the current cycle
    updated,    \* whether alarm.update was called in the current cycle
    lastAlarm   \* state of the latest alarm message published, "none" before any

VARIABLES
    hr,         \* the holding registers of the simulator's block, by address
    upc,        \* position of updater in server_sim.py
    u_sp,       \* updater's sp
    u_pw,       \* updater's pw
    u_temp,     \* updater's temp, as read from register 5 (tenths of a degree)
    u_soc,      \* updater's soc, as read from register 6 (tenths of a percent)
    u_t,        \* updater's t, seconds
    ticks,      \* number of ticks updater has ended, failed ones included
    u_v,        \* updater's v (x10), 0 outside the lines that use it
    lock,       \* holder of UpdatingDataBlock.lock: "free" or "updater"
    w_pw,       \* the tick that stored register 2 last, 0 for make_context
    w_temp,     \* the tick that stored register 5 last, 0 for make_context
    s_clock,    \* the time updater has slept so far, in seconds
    sample,     \* the registers the latest read transaction returned
    r_access,   \* how the latest read transaction accessed the block
    reads       \* number of read transactions served

alarmVars == <<alarm, ts, arg, pre, ret>>

streamVars == <<calls, raisedAt, clearedAt, onRaise, onReset, onClear>>

\* The observers of the alarm over a cycle.
cycleObs == <<alarm0, updated, lastAlarm>>

pollVars == <<pc, backoff, now, start, connected, mqc, rr, vals, exc, evt,
              teleOut, alarmOut, fails, cancelled, cycleObs>>

\* updater's locals.
locals == <<u_sp, u_pw, u_v, u_temp, u_soc>>

\* The observers of the read transactions.
readerVars == <<sample, r_access, reads>>

simVars == <<hr, upc, locals, u_t, ticks, lock, w_pw, w_temp, s_clock,
             readerVars>>

vars == <<alarmVars, streamVars, pollVars, simVars>>

\* Python's None, for Optional[float] fields: a timestamp t is held as <<t>>.
None == <<>>

Some(t) == <<t>>

Val(opt) == opt[1]

(***************************************************************************)
(* Bounds of the model.                                                    *)
(***************************************************************************)
MaxCalls == 12

\* Temperatures (tenths of a degree) offered to update: below lo, lo, inside
\* the band, hi, above hi.
TempSamples == {570, 580, 590, 600, 610}

\* Seconds between two consecutive update calls (timestamps never decrease).
TimeSteps == {0, 1}

\* Constructor arguments <<hi, lo, raise_after, clear_after>> tried in
\* AlarmSpec: the defaults, a zero-debounce alarm, and two with lo >= hi.
CtorArgs == { <<600, 580, 5, 3>>, <<600, 580, 0, 0>>,
              <<580, 600, 5, 3>>, <<600, 600, 5, 3>> }

(***************************************************************************)
(* client_poll.py: AlarmState                                              *)
(***************************************************************************)
AlarmState(hi, lo, raise_after, clear_after) ==
    [ hi |-> hi, lo |-> lo,
      raise_after |-> raise_after, clear_after |-> clear_after,
      high_since |-> None, low_since |-> None, active |-> FALSE ]

\* AlarmState() with the default arguments of __init__.
DefaultAlarm == AlarmState(600, 580, 5, 3)

BelowLo(a, temp_c) == temp_c < a.lo

ClearDueStrict(a, t, since) == t - since > a.clear_after

ClearDue(a, t, since) == t - since >= a.clear_after

AboveHiOrEqual(a, temp_c) == temp_c >= a.hi

AboveHi(a, temp_c) == temp_c > a.hi

RaiseDueStrict(a, t, since) == t - since > a.raise_after

RaiseDue(a, t, since) == t - since >= a.raise_after

NotAboveHiPaused(a) == a

\* The else branch of the inactive case: the high timer is discarded.
NotAboveHi(a) == [a EXCEPT !.high_since = None]

\* The else branch of the active case: the low timer is discarded.
NotBelowLo(a) == [a EXCEPT !.low_since = None]

RaiseNowKeepsTimer(a) == [a EXCEPT !.active = TRUE]

\* Lines 68-69: the transition to active.
RaiseNow(a) == [a EXCEPT !.active = TRUE, !.high_since = None]

\* Lines 57-58: the transition back to inactive.
ClearNow(a) == [a EXCEPT !.active = FALSE, !.low_since = None]

\* AlarmState.update(temp_c, ts): the object afterwards and the value returned
\* ("none" is Python's None).
update(a, temp_c, t) ==
    IF a.active
    THEN IF BelowLo(a, temp_c)
         THEN LET since == IF a.low_since = None THEN t ELSE Val(a.low_since)
              IN  IF ClearDue(a, t, since)
                  THEN [ alarm |-> ClearNow(a), evt |-> "cleared" ]
                  ELSE [ alarm |-> [a EXCEPT !.low_since = Some(since)],
                         evt |-> "none" ]
         ELSE [ alarm |-> NotBelowLo(a), evt |-> "none" ]
    ELSE IF AboveHi(a, temp_c)
         THEN LET since == IF a.high_since = None THEN t ELSE Val(a.high_since)
              IN  IF RaiseDue(a, t, since)
                  THEN [ alarm |-> RaiseNow(a), evt |-> "raised" ]
                  ELSE [ alarm |-> [a EXCEPT !.high_since = Some(since)],
                         evt |-> "none" ]
         ELSE [ alarm |-> NotAboveHi(a), evt |-> "none" ]

(***************************************************************************)
(* client_poll.py: the constants and the helpers of main                   *)
(***************************************************************************)
READ_TIMEOUT == 1

BASE_PERIOD == 1

MAX_BACKOFF == 30

ADDR_DEVICE_ID == 0

ADDR_POWER_W == 2

ADDR_VOLT_x10 == 3

ADDR_CURR_x100 == 4

ADDR_TEMP_x10 == 5

ADDR_SOC_x10 == 6

Min(a, b) == IF a <= b THEN a ELSE b

Max(a, b) == IF a >= b THEN a ELSE b

\* No response yet in this cycle.
NoResponse == [kind |-> "none", registers |-> <<>>]

\* regs[i] of a Python list held as a sequence (0-based index i).
Reg(regs, i) == regs[i + 1]

\* The register indices main reads from rr.registers, in the order it reads them.
ReadAddrs == <<ADDR_DEVICE_ID, ADDR_POWER_W, ADDR_VOLT_x10, ADDR_CURR_x100,
               ADDR_TEMP_x10, ADDR_SOC_x10>>

\* regs[i] raises IndexError exactly when i is not below len(regs).
IndexOk(regs, i) == i < Len(regs)

\* raw / d as a fixed-point value: the raw register and its divisor.
Scaled(raw, d) == <<raw, d>>

\* No locals decoded yet in this cycle.
NoVals == [ok |-> FALSE]

\* Lines 101-107: the locals read from regs; ok is FALSE when an index raised
\* IndexError.
Decode(regs) ==
    IF \A k \in 1..Len(ReadAddrs) : IndexOk(regs, ReadAddrs[k])
    THEN [ ok |-> TRUE,
           device_id |-> Reg(regs, ADDR_DEVICE_ID),
           power_w   |-> Reg(regs, ADDR_POWER_W),
           voltage_v |-> Scaled(Reg(regs, ADDR_VOLT_x10), 10),
           current_a |-> Scaled(Reg(regs, ADDR_CURR_x100), 100),
           temp_c    |-> Scaled(Reg(regs, ADDR_TEMP_x10), 10),
           soc       |-> Scaled(Reg(regs, ADDR_SOC_x10), 10) ]
    ELSE NoVals

\* Lines 109-120: the telemetry payload of a successful transaction.
GoodPayload(v, t) ==
    [ ts |-> t, device_id |-> Some(v.device_id),
      values |-> [ power_w |-> v.power_w, voltage_v |-> v.voltage_v,
                   current_a |-> v.current_a, temp_c |-> v.temp_c,
                   soc_pct |-> v.soc ],
      quality |-> "good", error |-> None ]

BadPayloadKeepsQuality(e, t) ==
    [ ts |-> t, device_id |-> None, values |-> <<>>,
      quality |-> "good", error |-> Some(e) ]

\* Lines 147-153: the telemetry payload of a failed transaction.
BadPayload(e, t) ==
    [ ts |-> t, device_id |-> None, values |-> <<>>,
      quality |-> "bad", error |-> Some(e) ]

AlarmPayloadAlwaysRaised(e, a, v, t) ==
    [ ts |-> t, device_id |-> v.device_id, type |-> "TEMP_HIGH",
      state |-> "RAISED", threshold |-> a.hi ]

\* Lines 126-140: the alarm payload of an event returned by update.
AlarmPayload(e, a, v, t) ==
    IF e = "raised"
    THEN [ ts |-> t, device_id |-> v.device_id, type |-> "TEMP_HIGH",
           state |-> "RAISED", threshold |-> a.hi ]
    ELSE [ ts |-> t, device_id |-> v.device_id, type |-> "TEMP_HIGH",
           state |-> "CLEARED", threshold |-> a.lo ]

NextBackoffUncapped(b) == IF b = 0 THEN 1 ELSE b * 2

NextBackoffDoubles(b) == Min(MAX_BACKOFF, b * 2)

\* Line 157: the backoff after a failed cycle.
NextBackoff(b) == IF b = 0 THEN 1 ELSE Min(MAX_BACKOFF, b * 2)

SleepTimeNoFloor(b, t, t0) == BASE_PERIOD - (t - t0) + b

\* Lines 160-161: the sleep at the end of a cycle.
SleepTime(b, t, t0) == Max(0, BASE_PERIOD - (t - t0)) + b

(***************************************************************************)
(* server_sim.py: the register block and the arithmetic of updater         *)
(***************************************************************************)
HR_LEN == 16

\* Line 60: interval=1.0, the period of updater in seconds.
INTERVAL == 1

\* make_context: the initial holding registers, by address 0..HR_LEN-1.
InitialRegs ==
    [ a \in 0..(HR_LEN - 1) |->
        CASE a = 0 -> 1001
          [] a = 1 -> 1
          [] a = 2 -> 1200
          [] a = 3 -> 2300
          [] a = 4 -> 500
          [] a = 5 -> 550
          [] a = 6 -> 700
          [] a = 7 -> 1200
          [] OTHER -> 0 ]

\* UpdatingDataBlock.set_reg(addr, value) on the register array.
set_reg(block, addr, value) == [block EXCEPT ![addr] = value]

\* UpdatingDataBlock.get_reg(addr).
get_reg(block, addr) == block[addr]

\* int(x) for x = n * 0.3 held as the fraction num / den: Python truncates
\* toward zero.
TruncDiv(num, den) == IF num >= 0 THEN num \div den ELSE -((-num) \div den)

ClampPowerNoUpper(p) == Max(0, p)

\* Line 71: pw = max(0, min(5000, pw)).
ClampPower(p) == Max(0, Min(5000, p))

StepPowerUnlimited(setpoint, p, jitter) ==
    LET delta == setpoint - p
        moved == IF (IF delta >= 0 THEN delta ELSE -delta) > 10
                 THEN p + TruncDiv(delta * 3, 10)
                 ELSE p + jitter
    IN  ClampPower(moved)

\* Lines 66-71: the power after one tick; jitter is the draw of
\* random.randint(-5, 5), used when the gap is at most 10.
StepPower(setpoint, p, jitter) ==
    LET delta == Max(-50, Min(50, setpoint - p))
        moved == IF (IF delta >= 0 THEN delta ELSE -delta) > 10
                 THEN p + TruncDiv(delta * 3, 10)
                 ELSE p + jitter
    IN  ClampPower(moved)

\* The powers at which, for v = 2300, the float product pw / (v/10) * 100 falls
\* just below the exact quotient, so that int() yields one less than
\* floor(1000 * pw / v).  For every other pw in 0..5000 and v in 2285..2315 the
\* float result is the exact floor.
FloatShort == {529, 943, 1058, 1173, 1886, 2001, 2116, 2231, 2346, 3772, 3887,
               4002, 4117, 4232, 4347, 4462, 4577}

\* Lines 77-78: ia = int(max(0, min(2000, pw / max(1, v/10) * 100))), for the
\* voltages line 74 produces (v/10 >= 228.5).
CurrentX100(p, volt) ==
    LET q == (p * 1000) \div volt
        x == IF volt = 2300 /\ p \in FloatShort THEN q - 1 ELSE q
    IN  Max(0, Min(2000, x))

\* Lines 82-86: the base of temp_target in the cycle t is in.
TargetBase(t) == IF (t \div 10) % 2 = 0 THEN 65 ELSE 40

\* Lines 88-90: int((temp*0.8 + temp_target*0.2) * 10) for temp = r / 10.0 and
\* temp_target = base + u20 / 20, u20 / 20 in [-0.5, 0.5].
SmoothTemp(r, base, u20) == (8 * r + 20 * base + u20) \div 10

\* Line 94: soc = min(100.0, max(0.0, soc)), in tenths of a percent.
ClampSoc(s) == Min(1000, Max(0, s))

\* Lines 92-95: int(soc * 10) after the random walk; j is the whole number of
\* tenths the draw of random.uniform(-0.2, 0.2) moves the truncated result by
\* (-3..2: a float sum just under r - 2 tenths truncates to r - 3).
StepSoc(r, j) == ClampSoc(r + j)

(***************************************************************************)
(* The sample streams of the alarm scenarios, by 0-based call index.       *)
(***************************************************************************)
\* 61.0 degrees once per second from t = 0.
RaiseStream(i) == [temp |-> 610, ts |-> i]

\* 61.0 for t = 0..3, 59.0 at t = 4, 61.0 again from t = 5.
ResetStream(i) == [temp |-> IF i = 4 THEN 590 ELSE 610, ts |-> i]

\* 61.0 for t = 0..5 ("raised" fires at t = 5), then 57.0 for t = 5..8.
ClearStream(i) == IF i <= 5 THEN [temp |-> 610, ts |-> i]
                            ELSE [temp |-> 570, ts |-> i - 1]

(***************************************************************************)
(* AlarmSpec: an AlarmState driven directly through update.                *)
(***************************************************************************)
\* The observers of a freshly constructed AlarmState.
FreshObservers ==
    /\ calls = 0
    /\ ts = 0
    /\ arg = 0
    /\ pre = alarm
    /\ ret = "none"
    /\ raisedAt = {}
    /\ clearedAt = {}
    /\ onRaise = TRUE
    /\ onReset = TRUE
    /\ onClear = TRUE

\* No read transaction has been served yet.
NoSample == [pw |-> 0, temp |-> 0, pw_tick |-> 0, temp_tick |-> 0]

NoAccess == [locked |-> FALSE, fields |-> 0, lock |-> "free"]

\* The simulator right after make_context, updater not yet started.
SimIdle ==
    /\ hr = InitialRegs
    /\ upc = "get_sp"
    /\ u_sp = 0
    /\ u_pw = 0
    /\ u_temp = 0
    /\ u_soc = 0
    /\ u_t = 0
    /\ ticks = 0
    /\ u_v = 0
    /\ lock = "free"
    /\ w_pw = 0
    /\ w_temp = 0
    /\ s_clock = 0
    /\ sample = NoSample
    /\ r_access = NoAccess
    /\ reads = 0

\* The client's loop before main has run.
PollIdle ==
    /\ pc = "start"
    /\ backoff = 0
    /\ now = 0
    /\ start = 0
    /\ connected = FALSE
    /\ mqc = "running"
    /\ rr = NoResponse
    /\ vals = NoVals
    /\ exc = None
    /\ evt = "none"
    /\ teleOut = <<>>
    /\ alarmOut = <<>>
    /\ fails = 0
    /\ cancelled = FALSE
    /\ alarm0 = alarm
    /\ updated = FALSE
    /\ lastAlarm = "none"

AlarmInit ==
    /\ \E c \in CtorArgs : alarm = AlarmState(c[1], c[2], c[3], c[4])
    /\ FreshObservers
    /\ PollIdle
    /\ SimIdle

\* One call alarm.update(temp_c, t), with the bookkeeping of the observers.
CallUpdate(temp_c, t) ==
    LET r == update(alarm, temp_c, t)
        s == [temp |-> temp_c, ts |-> t]
    IN  /\ alarm' = r.alarm
        /\ ret' = r.evt
        /\ pre' = alarm
        /\ arg' = temp_c
        /\ ts' = t
        /\ calls' = calls + 1
        /\ raisedAt' = IF r.evt = "raised" THEN raisedAt \cup {calls} ELSE raisedAt
        /\ clearedAt' = IF r.evt = "cleared" THEN clearedAt \cup {calls} ELSE clearedAt
        /\ onRaise' = (onRaise /\ s = RaiseStream(calls))
        /\ onReset' = (onReset /\ s = ResetStream(calls))
        /\ onClear' = (onClear /\ s = ClearStream(calls))

Update ==
    /\ calls < MaxCalls
    /\ \E temp_c \in TempSamples, dt \in TimeSteps : CallUpdate(temp_c, ts + dt)

AlarmNext == Update /\ UNCHANGED <<pollVars, simVars>>

AlarmSpec == AlarmInit /\ [][AlarmNext]_vars

(***************************************************************************)
(* Spec: main of client_poll.py, one action per step of the loop.          *)
(***************************************************************************)
\* Last clock value at which a new cycle may still start.
MaxTime == 67

\* The same, in LiveSpec.
LiveMaxTime == 20

\* Temperatures (register 5) the device answers with.
PollTemps == {570, 610}

\* Lengths of rr.registers the transport may hand back.
RespLens == 0..10

\* The positions of main inside the while loop.
LoopPcs == {"start", "connect", "read", "decode", "publish", "alarm",
            "reset", "except", "sleep"}

\* The register block a device answers with, cut to n registers.
Response(temp, n) ==
    [ kind |-> "registers",
      registers |-> SubSeq(<<1001, 1, 1200, 2300, 500, temp, 700, 1200, 0, 0>>, 1, n) ]

Init ==
    /\ alarm = DefaultAlarm
    /\ FreshObservers
    /\ PollIdle
    /\ SimIdle

\* Line 91: start = time.time(); a new cycle begins (while the clock is within
\* the horizon of the model).
StartWithin(horizon) ==
    /\ pc = "start"
    /\ now <= horizon
    /\ start' = now
    /\ rr' = NoResponse
    /\ vals' = NoVals
    /\ exc' = None
    /\ evt' = "none"
    /\ teleOut' = <<>>
    /\ alarmOut' = <<>>
    /\ alarm0' = alarm
    /\ updated' = FALSE
    /\ pc' = "connect"
    /\ UNCHANGED <<backoff, now, connected, mqc, fails, cancelled, lastAlarm>>
    /\ UNCHANGED <<alarmVars, streamVars, simVars>>

\* Lines 93-94: mb.connect() returns True (at once when the connection is
\* already open), or returns False and main raises.
Connect ==
    /\ pc = "connect"
    /\ \/ /\ connected' = TRUE
          /\ pc' = "read"
          /\ \E d \in 0..(IF connected THEN 0 ELSE READ_TIMEOUT) : now' = now + d
          /\ UNCHANGED exc
       \/ /\ ~connected
          /\ connected' = FALSE
          /\ exc' = Some("connect failed")
          /\ pc' = "except"
          /\ \E d \in 0..READ_TIMEOUT : now' = now + d
    /\ UNCHANGED <<backoff, start, mqc, rr, vals, evt, teleOut, alarmOut, fails,
                   cancelled>>
    /\ UNCHANGED <<alarmVars, streamVars, simVars, cycleObs>>

\* Lines 97-99: the read returns registers, or an error response (a timeout
\* included), for which main raises.
Read ==
    /\ pc = "read"
    /\ \E d \in 0..READ_TIMEOUT :
          /\ now' = now + d
          /\ \/ /\ \E temp \in PollTemps, n \in RespLens : rr' = Response(temp, n)
                /\ pc' = "decode"
                /\ UNCHANGED <<exc, connected>>
             \/ /\ rr' = [kind |-> "error", registers |-> <<>>]
                /\ exc' = Some(IF d = READ_TIMEOUT THEN "timeout" ELSE "error response")
                /\ pc' = "except"
                /\ connected' \in {connected, FALSE}
    /\ UNCHANGED <<backoff, start, mqc, vals, evt, teleOut, alarmOut, fails,
                   cancelled>>
    /\ UNCHANGED <<alarmVars, streamVars, simVars, cycleObs>>

\* Lines 101-107: regs = rr.registers and the six indexed reads; the response
\* is not used after them.
DecodeStep ==
    /\ pc = "decode"
    /\ vals' = Decode(rr.registers)
    /\ rr' = NoResponse
    /\ IF vals'.ok
       THEN pc' = "publish" /\ UNCHANGED exc
       ELSE pc' = "except" /\ exc' = Some("list index out of range")
    /\ UNCHANGED <<backoff, now, start, connected, mqc, evt, teleOut, alarmOut,
                   fails, cancelled>>
    /\ UNCHANGED <<alarmVars, streamVars, simVars, cycleObs>>

\* Lines 109-121: the good telemetry payload is published.
PublishGood ==
    /\ pc = "publish"
    /\ teleOut' = Append(teleOut, GoodPayload(vals, now))
    /\ pc' = "alarm"
    /\ UNCHANGED <<backoff, now, start, connected, mqc, rr, vals, exc, evt,
                   alarmOut, fails, cancelled>>
    /\ UNCHANGED <<alarmVars, streamVars, simVars, cycleObs>>

\* Lines 124-140: alarm.update(temp_c, time.time()) and the alarm message.
AlarmEval ==
    /\ pc = "alarm"
    /\ LET r == update(alarm, vals.temp_c[1], now)
       IN  /\ alarm' = r.alarm
           /\ evt' = r.evt
           /\ alarmOut' = IF r.evt = "none" THEN alarmOut
                          ELSE Append(alarmOut, AlarmPayload(r.evt, alarm, vals, now))
           /\ lastAlarm' = IF r.evt = "none" THEN lastAlarm
                           ELSE AlarmPayload(r.evt, alarm, vals, now).state
    /\ updated' = TRUE
    /\ pc' = "reset"
    /\ UNCHANGED <<backoff, now, start, connected, mqc, rr, vals, exc, teleOut,
                   fails, cancelled, alarm0>>
    /\ UNCHANGED <<ts, arg, pre, ret, streamVars, simVars>>

\* Line 143: success, the backoff is reset.
ResetBackoff ==
    /\ pc = "reset"
    /\ backoff' = 0
    /\ fails' = 0
    /\ pc' = "sleep"
    /\ UNCHANGED <<now, start, connected, mqc, rr, vals, exc, evt, teleOut,
                   alarmOut, cancelled>>
    /\ UNCHANGED <<alarmVars, streamVars, simVars, cycleObs>>

ExceptReraises ==
    /\ pc = "except"
    /\ teleOut' = Append(teleOut, BadPayload(Val(exc), now))
    /\ backoff' = NextBackoff(backoff)
    /\ fails' = fails + 1
    /\ pc' = "finally"
    /\ UNCHANGED <<now, start, connected, mqc, rr, vals, exc, evt, alarmOut,
                   cancelled>>
    /\ UNCHANGED <<alarmVars, streamVars, simVars, cycleObs>>

ExceptResetsTimer ==
    /\ pc = "except"
    /\ teleOut' = Append(teleOut, BadPayload(Val(exc), now))
    /\ backoff' = NextBackoff(backoff)
    /\ fails' = fails + 1
    /\ alarm' = NotAboveHi(alarm)
    /\ pc' = "sleep"
    /\ UNCHANGED <<now, start, connected, mqc, rr, vals, exc, evt, alarmOut,
                   cancelled>>
    /\ UNCHANGED <<ts, arg, pre, ret, streamVars, simVars, cycleObs>>

\* Lines 145-157: the handler of a failed cycle.
Except ==
    /\ pc = "except"
    /\ teleOut' = Append(teleOut, BadPayload(Val(exc), now))
    /\ backoff' = NextBackoff(backoff)
    /\ fails' = fails + 1
    /\ pc' = "sleep"
    /\ UNCHANGED <<now, start, connected, mqc, rr, vals, exc, evt, alarmOut,
                   cancelled>>
    /\ UNCHANGED <<alarmVars, streamVars, simVars, cycleObs>>

\* Lines 160-162: the sleep that ends the cycle.
Sleep ==
    /\ pc = "sleep"
    /\ now' = now + SleepTime(backoff, now, start)
    /\ pc' = "start"
    /\ UNCHANGED <<backoff, start, connected, mqc, rr, vals, exc, evt, teleOut,
                   alarmOut, fails, cancelled>>
    /\ UNCHANGED <<alarmVars, streamVars, simVars, cycleObs>>

\* The process is interrupted from outside (KeyboardInterrupt is no Exception:
\* the handler of line 145 does not catch it, the finally clause runs).  The
\* finally clause reads mqc and mb only: the locals of the interrupted cycle
\* are dropped here.
Cancel ==
    /\ pc \in LoopPcs
    /\ cancelled' = TRUE
    /\ pc' = "finally"
    /\ start' = 0
    /\ rr' = NoResponse
    /\ vals' = NoVals
    /\ exc' = None
    /\ evt' = "none"
    /\ teleOut' = <<>>
    /\ alarmOut' = <<>>
    /\ alarm0' = alarm
    /\ updated' = FALSE
    /\ UNCHANGED <<backoff, now, connected, mqc, fails, lastAlarm>>
    /\ UNCHANGED <<alarmVars, streamVars, simVars>>

FinallyLeavesOpen ==
    /\ pc = "finally"
    /\ mqc' = "stopped"
    /\ pc' = "done"
    /\ UNCHANGED <<backoff, now, start, connected, rr, vals, exc, evt, teleOut,
                   alarmOut, fails, cancelled>>
    /\ UNCHANGED <<alarmVars, streamVars, simVars, cycleObs>>

\* Lines 164-167: loop_stop, disconnect, close.
Finally ==
    /\ pc = "finally"
    /\ mqc' = "stopped"
    /\ connected' = FALSE
    /\ pc' = "done"
    /\ UNCHANGED <<backoff, now, start, rr, vals, exc, evt, teleOut, alarmOut,
                   fails, cancelled>>
    /\ UNCHANGED <<alarmVars, streamVars, simVars, cycleObs>>

Start == StartWithin(MaxTime)

\* The steps of a cycle after line 91.
CycleStep ==
    \/ Connect
    \/ Read
    \/ DecodeStep
    \/ PublishGood
    \/ AlarmEval
    \/ ResetBackoff
    \/ Except
    \/ Sleep

Next ==
    \/ Start
    \/ CycleStep
    \/ Cancel
    \/ Finally

Spec == Init /\ [][Next]_vars

\* The same loop over a shorter horizon, for the liveness properties.
LiveStart == StartWithin(LiveMaxTime)

LiveLoopStep ==
    \/ LiveStart
    \/ CycleStep

LiveNext ==
    \/ LiveLoopStep
    \/ Cancel
    \/ Finally

\* The interpreter keeps running main while it is not interrupted: a step of
\* the loop that can be taken is taken.
LiveSpec == Init /\ [][LiveNext]_vars /\ WF_vars(LiveLoopStep)

(***************************************************************************)
(* Properties of AlarmState (AlarmSpec).                                   *)
(***************************************************************************)
HasDefaults(a) ==
    /\ a.hi = 600
    /\ a.lo = 580
    /\ a.raise_after = 5
    /\ a.clear_after = 3

\* C1: with the default thresholds and a fresh AlarmState, update(61.0, t)
\* once per second from t = 0 returns no event for t = 0..4, "raised" at t = 5
\* and at no other call; no call made while the alarm is active returns
\* "raised".
C1_RaiseAtFive ==
    /\ (HasDefaults(alarm) /\ onRaise) =>
           /\ raisedAt = (IF calls >= 6 THEN {5} ELSE {})
           /\ clearedAt = {}
           /\ (calls >= 6 => alarm.active)
    /\ (calls > 0 /\ pre.active) => ret # "raised"

C1_Witness == HasDefaults(alarm) /\ onRaise /\ calls >= 8 /\ ts >= 7

\* C2: 61.0 for t = 0..3, 59.0 at t = 4, 61.0 from t = 5: no call with t < 10
\* returns "raised" and the call at t = 10 does; a sample with temp_c <= hi
\* taken while inactive leaves no high timer behind.
C2_ResetRestartsWindow ==
    /\ (HasDefaults(alarm) /\ onReset) =>
           /\ raisedAt = (IF calls >= 11 THEN {10} ELSE {})
           /\ (calls = 11 => ret = "raised" /\ ts = 10)
    /\ (calls > 0 /\ ~pre.active /\ arg <= pre.hi) =>
           /\ alarm.high_since = None
           /\ ret = "none"

C2_Witness == HasDefaults(alarm) /\ onReset /\ calls = 11 /\ ret = "raised"

\* C3: after the raise at t = 5, 57.0 at t = 5, 6, 7, 8 makes update return
\* "cleared" exactly once, from the call at t = 8.
C3_ClearAtEight ==
    (HasDefaults(alarm) /\ onClear) =>
        /\ clearedAt = (IF calls >= 10 THEN {9} ELSE {})
        /\ (calls >= 6 => raisedAt = {5})
        /\ (calls = 10 => ret = "cleared" /\ ts = 8)

C3_Witness == HasDefaults(alarm) /\ onClear /\ calls = 10 /\ ret = "cleared"

\* C4: a sample equal to hi taken while inactive leaves high_since None and
\* returns no event; a sample equal to lo taken while active leaves low_since
\* None and returns no event.
C4_BoundaryIsStrict ==
    /\ (calls > 0 /\ ~pre.active /\ arg = pre.hi) =>
           /\ alarm.high_since = None
           /\ ret = "none"
           /\ ~alarm.active
    /\ (calls > 0 /\ pre.active /\ arg = pre.lo) =>
           /\ alarm.low_since = None
           /\ ret = "none"
           /\ alarm.active

\* The high timer was running when the sample equal to hi arrived.
C4_Witness ==
    /\ calls > 0
    /\ ~pre.active
    /\ arg = pre.hi
    /\ pre.high_since # None
    /\ ts > Val(pre.high_since)

\* C9: no AlarmState with lo >= hi exists.
C9_ThresholdsOrdered == alarm.lo < alarm.hi

\* C19: after any sequence of update calls at most one debounce timer is
\* armed and it is the one of the state: high_since is None while active,
\* low_since is None while not active, and after a call that returned
\* "raised" or "cleared" both are None.
C19_TimersMatchState ==
    /\ alarm.active => alarm.high_since = None
    /\ ~alarm.active => alarm.low_since = None
    /\ (calls > 0 /\ ret \in {"raised", "cleared"}) =>
          (alarm.high_since = None /\ alarm.low_since = None)

C19_Witness ==
    /\ calls > 0
    /\ ret = "cleared"
    /\ pre.active
    /\ pre.low_since # None
    /\ alarm.low_since = None

(***************************************************************************)
(* Properties of the poll loop (Spec, LiveSpec).                           *)
(***************************************************************************)
\* The backoff after k consecutive failed cycles, as the sequence is stated:
\* 1, 2, 4, 8, 16, 30, 30, ...
BackoffSeq(k) == IF k = 0 THEN 0 ELSE IF k >= 6 THEN 30 ELSE 2 ^ (k - 1)

\* C5: after k consecutive failed cycles the backoff is the k-th term of
\* 1, 2, 4, 8, 16, 30, 30, ..., and after a successful cycle it is 0.
C5_BackoffSequence == backoff = BackoffSeq(fails)

C5_Witness == fails = 7 /\ backoff = 30

\* C6: a cycle publishes at most one telemetry message, and exactly one by the
\* time it sleeps: a good one with the decoded device_id and values when no
\* step raised, a bad one with device_id null, no values and the error
\* otherwise.
C6_OneTelemetryPerCycle ==
    /\ Len(teleOut) <= 1
    /\ pc = "sleep" =>
          /\ Len(teleOut) = 1
          /\ exc = None =>
                /\ teleOut[1].quality = "good"
                /\ teleOut[1].error = None
                /\ teleOut[1].device_id = Some(vals.device_id)
                /\ DOMAIN teleOut[1].values =
                      {"power_w", "voltage_v", "current_a", "temp_c", "soc_pct"}
                /\ teleOut[1].values.power_w = vals.power_w
                /\ teleOut[1].values.voltage_v = vals.voltage_v
                /\ teleOut[1].values.current_a = vals.current_a
                /\ teleOut[1].values.temp_c = vals.temp_c
                /\ teleOut[1].values.soc_pct = vals.soc
          /\ exc # None =>
                /\ teleOut[1].quality = "bad"
                /\ teleOut[1].device_id = None
                /\ DOMAIN teleOut[1].values = {}
                /\ teleOut[1].error = exc

C6_Witness ==
    /\ pc = "sleep"
    /\ exc = Some("list index out of range")
    /\ teleOut[1].quality = "bad"

\* C7: the loop is left only by cancellation, and after every failure a new
\* transaction attempt follows unless the loop is cancelled first (or the
\* clock has passed the horizon of the model).
C7_FailureNeverStopsLoop ==
    /\ [](pc \in {"finally", "done"} => cancelled)
    /\ (pc = "except") ~> (pc = "connect" \/ cancelled \/ now > LiveMaxTime)

C7_Witness == pc = "connect" /\ fails = 3 /\ ~cancelled

\* C8: a response of fewer than 10 registers never leads to a good telemetry
\* sample: decoding it raises.
C8_ShortResponseFails ==
    [][(pc = "decode" /\ Len(rr.registers) < 10) => pc' \in {"except", "finally"}]_vars

\* C14: the loop is left by cancellation only, and when the process ends
\* the publisher is stopped and the transport connection is closed, at
\* whatever point of a cycle the cancellation came.
C14_CleanupOnExit ==
    /\ [](cancelled <=> pc \in {"finally", "done"})
    /\ [](pc = "done" => (mqc = "stopped" /\ ~connected))
    /\ [][pc = "finally" => (pc' = "done" /\ mqc' = "stopped" /\ ~connected')]_vars

C14_Witness ==
    /\ pc = "done"
    /\ mqc = "stopped"
    /\ ~connected
    /\ alarm.active
    /\ lastAlarm = "RAISED"
    /\ backoff = 0

\* Whether the current cycle has published an alarm message of state st.
HasAlarmMsg(st) == \E i \in DOMAIN alarmOut : alarmOut[i].state = st

\* C15: a cycle publishes at most one alarm message; by the time it sleeps it
\* has published RAISED exactly when active went from false to true in it and
\* CLEARED exactly when active went from true to false; and over a run the
\* alarm messages alternate RAISED, CLEARED, RAISED, ..., RAISED first.
C15_AlarmOnTransitionOnly ==
    /\ [](Len(alarmOut) <= 1)
    /\ [](pc = "sleep" =>
            /\ HasAlarmMsg("RAISED") <=> (~alarm0.active /\ alarm.active)
            /\ HasAlarmMsg("CLEARED") <=> (alarm0.active /\ ~alarm.active))
    /\ [][(Len(alarmOut') > Len(alarmOut) \/ lastAlarm' # lastAlarm) =>
            /\ Len(alarmOut') = Len(alarmOut) + 1
            /\ lastAlarm' = alarmOut'[Len(alarmOut')].state
            /\ lastAlarm' = IF lastAlarm = "RAISED" THEN "CLEARED" ELSE "RAISED"]_vars

C15_Witness ==
    /\ pc = "sleep"
    /\ Len(alarmOut) = 1
    /\ alarmOut[1].state = "CLEARED"
    /\ lastAlarm = "CLEARED"
    /\ alarm0.active

\* C16: the backoff stays within 0..MAX_BACKOFF; it is 0 exactly when no
\* cycle has failed since the start or since the last successful cycle; and
\* it decreases only when a successful cycle sets it back to 0.
C16_BackoffBounded ==
    /\ [](0 <= backoff /\ backoff <= MAX_BACKOFF)
    /\ [](backoff = 0 <=> fails = 0)
    /\ [](pc = "sleep" => (backoff = 0 <=> exc = None))
    /\ [][backoff' < backoff => (pc = "reset" /\ exc = None /\ backoff' = 0)]_vars

C16_Witness == pc = "reset" /\ backoff = MAX_BACKOFF /\ fails >= 6

\* C17: the sleep that ends a cycle lasts max(0, period - elapsed) plus the
\* backoff this cycle has set: max(0, period - elapsed) alone after a
\* successful cycle, and at least the new backoff after a failed one, also
\* when the cycle took longer than the period.
C17_SleepAddsNewBackoff ==
    [][(pc = "sleep" /\ pc' = "start") =>
          LET elapsed == now - start
              rest == IF BASE_PERIOD - elapsed > 0 THEN BASE_PERIOD - elapsed ELSE 0
              wait == now' - now
          IN  /\ wait = rest + backoff
              /\ exc = None => wait = rest
              /\ exc # None => (wait >= backoff /\ backoff = BackoffSeq(fails)
                                                /\ backoff >= 1)]_vars

C17_Witness ==
    /\ pc = "start"
    /\ ~cancelled
    /\ exc # None
    /\ backoff >= 2
    /\ now - start = 2 * BASE_PERIOD + backoff

\* C20: a failed cycle does not call update and leaves active, high_since
\* and low_since as they were at its start, so a timer that was running
\* before an outage is still running, from the same instant, after it.
C20_FailedCycleKeepsAlarm ==
    /\ [](exc # None => (alarm = alarm0 /\ ~updated))
    /\ [][pc = "except" => alarm' = alarm]_vars

C20_Witness ==
    /\ pc = "reset"
    /\ evt = "raised"
    /\ fails >= 1
    /\ alarm0.high_since # None
    /\ ~alarm0.active

(***************************************************************************)
(* SimSpec: updater of server_sim.py, one action per access to the block,  *)
(* and the writes of the setpoint register by Modbus clients.              *)
(***************************************************************************)
\* Ticks the updater performs in a run.
MaxTicks == 2

\* Register 2 and register 6 at the start of a run: the values of make_context
\* and values the block holds after enough ticks (register 4 is then the
\* current the tick that stored that power derived at 230.0 V).
PowerStarts == {0, 1178, 1200, 5000}

SocStarts == {0, 700, 1000}

\* Updater's t at the start of a run: in the first and at the end of the first
\* half-period of the temperature cycle.
TickStarts == {0, 9}

\* Values Modbus clients write to the setpoint register.
Setpoints == {0, 1173, 65535}

\* Draws of random.randint(-5, 5), of random.randint(-15, 15), of
\* 20 * random.uniform(-0.5, 0.5) and of the soc walk (see StepSoc).
PowerJitter == {-5, 5}

VoltJitter == {0, 15}

TargetJitter == {-10, 10}

SocJitter == {-3, 2}

\* Read transactions served in a run.
MaxReads == 1

SimInit ==
    /\ \E p \in PowerStarts, s \in SocStarts :
          hr = [InitialRegs EXCEPT
                  ![2] = p,
                  ![4] = IF p = InitialRegs[2] THEN InitialRegs[4]
                         ELSE CurrentX100(p, InitialRegs[3]),
                  ![6] = s]
    /\ upc = "get_sp"
    /\ u_sp = 0
    /\ u_pw = 0
    /\ u_v = 0
    /\ u_temp = 0
    /\ u_soc = 0
    /\ u_t \in TickStarts
    /\ ticks = 0
    /\ lock = "free"
    /\ w_pw = 0
    /\ w_temp = 0
    /\ s_clock = 0
    /\ sample = NoSample
    /\ r_access = NoAccess
    /\ reads = 0
    /\ alarm = DefaultAlarm
    /\ FreshObservers
    /\ PollIdle

\* The positions of updater inside a tick: each is one get_reg or set_reg.
TickPcs == {"get_sp", "get_pw", "set_pw", "set_v", "set_ia", "get_temp",
            "set_temp", "get_soc", "set_soc", "set_status"}

\* Lines 30 and 34: `with self.lock:` of set_reg and get_reg is entered.  A
\* new tick begins while the run is within its bound.
Acquire ==
    /\ upc \in TickPcs
    /\ upc = "get_sp" => ticks < MaxTicks
    /\ lock = "free"
    /\ lock' = "updater"
    /\ UNCHANGED <<hr, upc, locals, u_t, ticks, w_pw, w_temp, s_clock, readerVars>>
    /\ UNCHANGED <<alarmVars, streamVars, pollVars>>

\* Line 64: sp = block.get_reg(7).
GetSp ==
    /\ upc = "get_sp"
    /\ lock = "updater"
    /\ u_sp' = get_reg(hr, 7)
    /\ lock' = "free"
    /\ upc' = "get_pw"
    /\ UNCHANGED <<hr, u_pw, u_v, u_temp, u_soc, u_t, ticks, w_pw, w_temp,
                   s_clock, readerVars>>
    /\ UNCHANGED <<alarmVars, streamVars, pollVars>>

\* Line 65: pw = block.get_reg(2).
GetPw ==
    /\ upc = "get_pw"
    /\ lock = "updater"
    /\ u_pw' = get_reg(hr, 2)
    /\ lock' = "free"
    /\ upc' = "set_pw"
    /\ UNCHANGED <<hr, u_sp, u_v, u_temp, u_soc, u_t, ticks, w_pw, w_temp,
                   s_clock, readerVars>>
    /\ UNCHANGED <<alarmVars, streamVars, pollVars>>

\* Lines 66-72: the new power is computed and stored.
SetPw ==
    /\ upc = "set_pw"
    /\ lock = "updater"
    /\ \E jitter \in PowerJitter : u_pw' = StepPower(u_sp, u_pw, jitter)
    /\ hr' = set_reg(hr, 2, u_pw')
    /\ w_pw' = ticks + 1
    /\ lock' = "free"
    /\ upc' = "set_v"
    /\ UNCHANGED <<u_sp, u_v, u_temp, u_soc, u_t, ticks, w_temp, s_clock,
                   readerVars>>
    /\ UNCHANGED <<alarmVars, streamVars, pollVars>>

\* Lines 74-75: v is drawn and stored.
SetV ==
    /\ upc = "set_v"
    /\ lock = "updater"
    /\ \E jitter \in VoltJitter : u_v' = 2300 + jitter
    /\ hr' = set_reg(hr, 3, u_v')
    /\ lock' = "free"
    /\ upc' = "set_ia"
    /\ UNCHANGED <<u_sp, u_pw, u_temp, u_soc, u_t, ticks, w_pw, w_temp,
                   s_clock, readerVars>>
    /\ UNCHANGED <<alarmVars, streamVars, pollVars>>

\* Lines 77-79: ia is derived from pw and v and stored; v is not read again.
SetIa ==
    /\ upc = "set_ia"
    /\ lock = "updater"
    /\ hr' = set_reg(hr, 4, CurrentX100(u_pw, u_v))
    /\ u_v' = 0
    /\ lock' = "free"
    /\ upc' = "get_temp"
    /\ UNCHANGED <<u_sp, u_pw, u_temp, u_soc, u_t, ticks, w_pw, w_temp,
                   s_clock, readerVars>>
    /\ UNCHANGED <<alarmVars, streamVars, pollVars>>

\* Line 88: temp = block.get_reg(5) / 10.0.
GetTemp ==
    /\ upc = "get_temp"
    /\ lock = "updater"
    /\ u_temp' = get_reg(hr, 5)
    /\ lock' = "free"
    /\ upc' = "set_temp"
    /\ UNCHANGED <<hr, u_sp, u_pw, u_v, u_soc, u_t, ticks, w_pw, w_temp,
                   s_clock, readerVars>>
    /\ UNCHANGED <<alarmVars, streamVars, pollVars>>

\* Lines 82-90: the target is drawn, temp is smoothed toward it and stored.
SetTemp ==
    /\ upc = "set_temp"
    /\ lock = "updater"
    /\ \E u20 \in TargetJitter :
          hr' = set_reg(hr, 5, SmoothTemp(u_temp, TargetBase(u_t), u20))
    /\ w_temp' = ticks + 1
    /\ lock' = "free"
    /\ upc' = "get_soc"
    /\ UNCHANGED <<u_sp, u_pw, u_v, u_temp, u_soc, u_t, ticks, w_pw, s_clock,
                   readerVars>>
    /\ UNCHANGED <<alarmVars, streamVars, pollVars>>

\* Line 92: soc = block.get_reg(6) / 10.0.
GetSoc ==
    /\ upc = "get_soc"
    /\ lock = "updater"
    /\ u_soc' = get_reg(hr, 6)
    /\ lock' = "free"
    /\ upc' = "set_soc"
    /\ UNCHANGED <<hr, u_sp, u_pw, u_v, u_temp, u_t, ticks, w_pw, w_temp,
                   s_clock, readerVars>>
    /\ UNCHANGED <<alarmVars, streamVars, pollVars>>

\* Lines 93-95: the random walk of soc, clamped and stored.
SetSoc ==
    /\ upc = "set_soc"
    /\ lock = "updater"
    /\ \E j \in SocJitter : hr' = set_reg(hr, 6, StepSoc(u_soc, j))
    /\ lock' = "free"
    /\ upc' = "set_status"
    /\ UNCHANGED <<u_sp, u_pw, u_v, u_temp, u_soc, u_t, ticks, w_pw, w_temp,
                   s_clock, readerVars>>
    /\ UNCHANGED <<alarmVars, streamVars, pollVars>>

\* Lines 97-101: the status register, t += interval and the sleep that ends the
\* tick.  The locals are assigned anew before the next tick reads them: they
\* are dropped here.
SetStatus ==
    /\ upc = "set_status"
    /\ lock = "updater"
    /\ hr' = set_reg(hr, 1, 1)
    /\ lock' = "free"
    /\ u_t' = u_t + INTERVAL
    /\ s_clock' = s_clock + INTERVAL
    /\ ticks' = ticks + 1
    /\ u_sp' = 0
    /\ u_pw' = 0
    /\ u_v' = 0
    /\ u_temp' = 0
    /\ u_soc' = 0
    /\ upc' = "get_sp"
    /\ UNCHANGED <<w_pw, w_temp, readerVars>>
    /\ UNCHANGED <<alarmVars, streamVars, pollVars>>

\* Lines 102-103: a statement of the tick raises and the handler is entered.
\* An exception that leaves a `with self.lock:` block releases the lock; the
\* locals of the tick are not read again.
UpdaterError ==
    /\ upc \in TickPcs
    /\ upc = "get_sp" => ticks < MaxTicks
    /\ lock' = "free"
    /\ u_sp' = 0
    /\ u_pw' = 0
    /\ u_v' = 0
    /\ u_temp' = 0
    /\ u_soc' = 0
    /\ upc' = "failed"
    /\ UNCHANGED <<hr, u_t, ticks, w_pw, w_temp, s_clock, readerVars>>
    /\ UNCHANGED <<alarmVars, streamVars, pollVars>>

ErrorSleepStops ==
    /\ upc = "failed"
    /\ ticks' = ticks + 1
    /\ upc' = "stopped"
    /\ UNCHANGED <<hr, locals, u_t, lock, w_pw, w_temp, s_clock, readerVars>>
    /\ UNCHANGED <<alarmVars, streamVars, pollVars>>

\* Line 104: the sleep of the handler, after which the loop goes on with the
\* next tick; t is not advanced.
ErrorSleep ==
    /\ upc = "failed"
    /\ s_clock' = s_clock + INTERVAL
    /\ ticks' = ticks + 1
    /\ upc' = "get_sp"
    /\ UNCHANGED <<hr, locals, u_t, lock, w_pw, w_temp, readerVars>>
    /\ UNCHANGED <<alarmVars, streamVars, pollVars>>

\* A Modbus client writes the setpoint register (address 7).  The server
\* stores it with the setValues the block inherits, which takes no lock.
WriteSetpoint ==
    /\ ticks < MaxTicks
    /\ \E w \in Setpoints : w # hr[7] /\ hr' = set_reg(hr, 7, w)
    /\ UNCHANGED <<upc, locals, u_t, ticks, lock, w_pw, w_temp, s_clock,
                   readerVars>>
    /\ UNCHANGED <<alarmVars, streamVars, pollVars>>

ReadTransactionPerField ==
    /\ reads < MaxReads
    /\ IF r_access.fields = 0
       THEN /\ sample' = [sample EXCEPT !.pw = hr[2], !.pw_tick = w_pw]
            /\ r_access' = [locked |-> FALSE, fields |-> 1, lock |-> lock]
            /\ reads' = reads
       ELSE /\ sample' = [sample EXCEPT !.temp = hr[5], !.temp_tick = w_temp]
            /\ r_access' = [locked |-> FALSE, fields |-> 0, lock |-> lock]
            /\ reads' = reads + 1
    /\ UNCHANGED <<hr, upc, locals, u_t, ticks, lock, w_pw, w_temp, s_clock>>
    /\ UNCHANGED <<alarmVars, streamVars, pollVars>>

\* A Modbus client reads the ten registers from address 0 (client_poll.py line
\* 97).  The server answers from the block through the getValues the block
\* inherits: UpdatingDataBlock overrides neither getValues nor setValues, so
\* the transaction takes no lock and copies the ten registers at once.
ReadTransaction ==
    /\ reads < MaxReads
    /\ sample' = [pw |-> hr[2], temp |-> hr[5],
                  pw_tick |-> w_pw, temp_tick |-> w_temp]
    /\ r_access' = [locked |-> FALSE, fields |-> 10, lock |-> lock]
    /\ reads' = reads + 1
    /\ UNCHANGED <<hr, upc, locals, u_t, ticks, lock, w_pw, w_temp, s_clock>>
    /\ UNCHANGED <<alarmVars, streamVars, pollVars>>

\* The steps of one tick of updater.
Tick ==
    \/ Acquire
    \/ GetSp
    \/ GetPw
    \/ SetPw
    \/ SetV
    \/ SetIa
    \/ GetTemp
    \/ SetTemp
    \/ GetSoc
    \/ SetSoc
    \/ SetStatus

\* SimSpec: the ticks of an updater in which no statement raises, beside the
\* setpoint writes of Modbus clients.
SimNext ==
    \/ Tick
    \/ WriteSetpoint

SimSpec == SimInit /\ [][SimNext]_vars

\* ConcSpec: the simulator as run_server starts it, updater (failing ticks
\* included) beside the read transactions of the server.
ConcNext ==
    \/ Tick
    \/ UpdaterError
    \/ ErrorSleep
    \/ ReadTransaction

ConcSpec == Init /\ [][ConcNext]_vars

\* LiveSimSpec: updater with failing ticks, its thread always scheduled
\* again.
FaultNext ==
    \/ Tick
    \/ UpdaterError
    \/ ErrorSleep

LiveSimSpec == Init /\ [][FaultNext]_vars /\ WF_vars(Tick \/ ErrorSleep)

(***************************************************************************)
(* Properties of the simulator (SimSpec).                                  *)
(***************************************************************************)
\* C10: whatever the setpoint and the draws, the stored power_w is in
\* 0..5000, the stored soc in 0..1000 and the stored current in 0..2000, after
\* every tick (and between the writes of a tick).
C10_RegistersClamped ==
    /\ hr[2] \in 0..5000
    /\ hr[6] \in 0..1000
    /\ hr[4] \in 0..2000

\* A tick has run at full power against a setpoint above it, with soc at its
\* upper end: each of the three clamps has cut a value.
C10_Witness ==
    /\ ticks >= 1
    /\ upc = "get_sp"
    /\ hr[7] = 65535
    /\ hr[2] = 5000
    /\ hr[4] = 2000
    /\ hr[6] = 1000

\* The absolute value.
Abs(x) == IF x >= 0 THEN x ELSE -x

\* C18 as stated: when the gap between setpoint and power exceeds 10 W the
\* tick moves the power by 30% of the gap, whatever the size of the gap, and
\* otherwise by a jitter in -5..5; the result is clamped to 0..5000.
C18_ThirtyPercentOfGap ==
    [][(upc = "set_pw" /\ upc' = "set_v") =>
          LET gap == u_sp - u_pw
          IN  IF Abs(gap) > 10
              THEN hr'[2] = Max(0, Min(5000, u_pw + TruncDiv(3 * gap, 10)))
              ELSE \E j \in -5..5 : hr'[2] = Max(0, Min(5000, u_pw + j))]_vars

\* C18 amended: the gap is first limited to -50..50, so the tick moves the
\* power by 30% of the limited gap (truncated toward zero, at most 15 W) when
\* the gap exceeds 10 W, and otherwise by a jitter in -5..5; the result is
\* clamped to 0..5000.
C18_LimitedStep ==
    [][(upc = "set_pw" /\ upc' = "set_v") =>
          LET gap == u_sp - u_pw
              lim == IF gap > 50 THEN 50 ELSE IF gap < -50 THEN -50 ELSE gap
          IN  /\ u_pw' = hr'[2]
              /\ IF Abs(gap) > 10
                 THEN hr'[2] = Max(0, Min(5000, u_pw + TruncDiv(3 * lim, 10)))
                 ELSE \E j \in -5..5 : hr'[2] = Max(0, Min(5000, u_pw + j))]_vars

\* A tick has moved the power of make_context 15 W toward a setpoint that is
\* far more than 50 W above it.
C18_Witness ==
    /\ upc = "set_v"
    /\ u_sp = 65535
    /\ hr[2] = InitialRegs[2] + 15
    /\ u_pw = hr[2]

(***************************************************************************)
(* Properties of the simulator's threads (ConcSpec, LiveSimSpec).          *)
(***************************************************************************)
\* C11: every access to the block, by updater and by the read transactions,
\* is made holding the block's lock, one register per acquisition, and no
\* read transaction accesses the block while updater is inside set_reg.
C11_EveryAccessUnderLock ==
    /\ [][hr' # hr => (lock = "updater" /\ lock' = "free")]_vars
    /\ [](reads > 0 => (r_access.locked /\ r_access.fields = 1))
    /\ [][reads' > reads => lock # "updater"]_vars

C13_UpdaterSurvivesErrors ==
    /\ [](upc \in TickPcs \cup {"failed"})
    /\ [][ticks' # ticks =>
            /\ ticks' = ticks + 1
            /\ s_clock' = s_clock + INTERVAL
            /\ upc' = "get_sp"]_vars
    /\ (upc = "failed") ~> (upc = "get_sp")
    /\ (ticks < MaxTicks) ~> (ticks = MaxTicks)

\* The tick after a failed one is at its last statement.
C13_Witness ==
    /\ upc = "set_status"
    /\ lock = "updater"
    /\ ticks = 1
    /\ u_t = 0
    /\ s_clock = INTERVAL

====
